---- MODULE Spec2Model ----
(***************************************************************************)
(* A model of health_inequality_app.py: the loader/cleaner load_data and   *)
(* the module-level script that calls it once and renders the dashboard.   *)
(*                                                                         *)
(* A header is a sequence of atoms: BOM (U+FEFF), SP (one whitespace       *)
(* character) or a word (a run of other characters, kept whole).  A cell   *)
(* is a record [k, n, s]: a number, a string or the missing marker NaN.    *)
(* A DataFrame is [columns, data, n]: the column labels, the cells column  *)
(* by column, and the number of rows.  Optional values (None in the        *)
(* source) are sequences of length 0 or 1.                                 *)
(***************************************************************************)
EXTENDS Integers, Sequences, FiniteSets, TLC

VARIABLES file, pc, df, load_error, steps, exc, shown, kpi

vars == <<file, pc, df, load_error, steps, exc, shown, kpi>>

-----------------------------------------------------------------------------
(* Bounds and input alphabets *)

MaxRows == 1

BOM == "BOM"

SP == " "

PLACEHOLDER == ".."

\* The text of a CSV field, and the number a numeric text denotes.
NumText == ("40" :> 40) @@ ("55" :> 55)

Tokens == {PLACEHOLDER, "40", "55", "abc"}

\* Header rows of the files considered (at most three fields each).
Schemas ==
  { << <<"Country">>, <<"GII VALUE">>, <<"HUMAN DEVELOPMENT">> >>,
    << <<"F_secondary_educ">>, <<"M_secondary_educ">>, <<"GII VALUE">> >>,
    << <<"Edu_gap">>, <<"F_secondary_educ">>, <<"M_secondary_educ">> >>,
    << <<"Edu_gap">>, <<"M_secondary_educ">>, <<"GII VALUE">> >>,
    << <<"F_Labour_force">>, <<"M_Labour_force">>, <<"GII VALUE">> >>,
    << <<"Labour_gap">>, <<"F_Labour_force">>, <<"GII VALUE">> >>,
    << <<"Edu_gap">>, <<SP, "Edu_gap">>, <<"GII VALUE">> >>,
    << <<BOM, "Country">>, <<SP, "GII VALUE", SP>>, <<SP, SP, "M_secondary_educ">> >>,
    << <<"Country">>, <<"Country", SP>>, <<"GII VALUE">> >>,
    << <<"M_Labour_force">>, <<"F_Labour_force", SP>>, <<"Labour_gap">> >>,
    << <<"GII VALUE">>, <<SP, "GII VALUE">> >>,
    << <<"GII VALUE">>, <<"GII VALUE">> >>,
    << <<"Country">>, <<"Maternal_mortality">> >>,
    << <<"GII VALUE">> >> }

-----------------------------------------------------------------------------
(* Program constants *)

DATA_PATH == "gender_inequality_index.csv"

TARGET_COL == "GII VALUE"

NUMERIC_COLS ==
  << "HDI rank", "GII VALUE", "GII RANK",
     "Maternal_mortality", "Adolescent_birth_rate",
     "Seats_parliamentt(% held by women)",
     "F_secondary_educ", "M_secondary_educ",
     "F_Labour_force", "M_Labour_force" >>

-----------------------------------------------------------------------------
(* Values *)

None == <<>>

Some(x) == <<x>>

NaN == [k |-> "nan", n |-> 0, s |-> ""]

Num(x) == [k |-> "num", n |-> x, s |-> ""]

Str(t) == [k |-> "str", n |-> 0, s |-> t]

isna(c) == c.k = "nan"

Range(q) == {q[i] : i \in DOMAIN q}

\* The label a word alone makes.
Label(name) == <<name>>

\* The positions of the columns labelled name.
Positions(d, name) == {i \in DOMAIN d.columns : d.columns[i] = Label(name)}

\* name in df.columns
HasColumn(d, name) == Positions(d, name) # {}

\* df.empty: some axis has length 0.
Empty(d) == Len(d.columns) = 0 \/ d.n = 0

-----------------------------------------------------------------------------
(* pd.read_csv(path, encoding="utf-8-sig") *)

\* Repeated header fields are made unique: X, X.1, X.2.
DupSuffix == <<".1", ".2", ".3">>

MangleDupes(header) ==
  [i \in DOMAIN header |->
     LET earlier == Cardinality({j \in 1..(i - 1) : header[j] = header[i]})
     IN  IF earlier = 0 THEN header[i] ELSE Append(header[i], DupSuffix[earlier])]

\* A column whose every field is numeric text is read as numbers; any other
\* column is read as strings, numeric-looking fields included.
InferColumn(texts) ==
  IF \A i \in DOMAIN texts : texts[i] \in DOMAIN NumText
  THEN [i \in DOMAIN texts |-> Num(NumText[texts[i]])]
  ELSE [i \in DOMAIN texts |-> Str(texts[i])]

ParseCsv(f) ==
  [columns |-> MangleDupes(f.header),
   data    |-> [i \in DOMAIN f.header |->
                  InferColumn([r \in DOMAIN f.rows |-> f.rows[r][i]])],
   n       |-> Len(f.rows)]

os_path_exists(path) == path = DATA_PATH /\ file.exists

\* Raises (FileNotFoundError, ParserError, EmptyDataError, ...) or returns a table.
read_csv(path) ==
  IF ~os_path_exists(path) THEN [raised |-> TRUE, msg |-> "No such file or directory", df |-> None]
  ELSE IF file.malformed THEN [raised |-> TRUE, msg |-> "Error tokenizing data", df |-> None]
  ELSE [raised |-> FALSE, msg |-> "", df |-> Some(ParseCsv(file))]

-----------------------------------------------------------------------------
(* The cleaning steps of load_data *)

\* A replacement that leaves every cell as it was read.
ReplaceNothing(d) == d

ReplaceCell(c) == IF c = Str(PLACEHOLDER) THEN NaN ELSE c

\* df.replace("..", np.nan)
ReplacePlaceholder(d) ==
  [d EXCEPT !.data = [i \in DOMAIN d.data |->
                        [r \in DOMAIN d.data[i] |-> ReplaceCell(d.data[i][r])]]]

\* .str.replace("\ufeff", "", regex=False)
RemoveBOM(h) == SelectSeq(h, LAMBDA a : a # BOM)

RECURSIVE LStrip(_)
LStrip(h) == IF h # <<>> /\ Head(h) = SP THEN LStrip(Tail(h)) ELSE h

RECURSIVE RStrip(_)
RStrip(h) ==
  IF h # <<>> /\ h[Len(h)] = SP THEN RStrip(SubSeq(h, 1, Len(h) - 1)) ELSE h

\* .str.strip()
Strip(h) == RStrip(LStrip(h))

NormalizeHeader(h) == Strip(RemoveBOM(h))

\* df.columns = df.columns.str.replace(...).str.strip()
NormalizeColumns(d) ==
  [d EXCEPT !.columns = [i \in DOMAIN d.columns |-> NormalizeHeader(d.columns[i])]]

\* errors="ignore" in place of errors="coerce": an unparseable value stays.
ToNumericCellIgnore(c) ==
  IF c.k = "str" /\ c.s \in DOMAIN NumText THEN Num(NumText[c.s]) ELSE c

ToNumericCell(c) ==
  IF c.k = "str"
  THEN IF c.s \in DOMAIN NumText THEN Num(NumText[c.s]) ELSE NaN
  ELSE c

\* pd.to_numeric(series, errors="coerce")
to_numeric(series) == [r \in DOMAIN series |-> ToNumericCell(series[r])]

\* df[name] = value: every column labelled name is overwritten in place
\* (the value is broadcast over repeated labels); a new label is appended.
SetItem(d, name, series) ==
  IF HasColumn(d, name)
  THEN [d EXCEPT !.data = [i \in DOMAIN d.data |->
                             IF d.columns[i] = Label(name) THEN series ELSE d.data[i]]]
  ELSE [d EXCEPT !.columns = Append(d.columns, Label(name)),
                 !.data = Append(d.data, series)]

\* df[name] for a label that occurs once.
GetItem(d, name) == d.data[CHOOSE i \in Positions(d, name) : TRUE]

\* for col in NUMERIC_COLS: if col in df.columns: df[col] = pd.to_numeric(df[col], ...)
\* df[col] is a DataFrame when the label is repeated, and to_numeric raises
\* TypeError on it.
RECURSIVE ConvertNumerics(_, _)
ConvertNumerics(d, i) ==
  IF i > Len(NUMERIC_COLS) THEN [raised |-> FALSE, df |-> d]
  ELSE LET col == NUMERIC_COLS[i] IN
       IF ~HasColumn(d, col) THEN ConvertNumerics(d, i + 1)
       ELSE IF Cardinality(Positions(d, col)) > 1 THEN [raised |-> TRUE, df |-> d]
       ELSE ConvertNumerics(SetItem(d, col, to_numeric(GetItem(d, col))), i + 1)

\* The operands of the subtraction exchanged.
SubCellSwapped(m, f) ==
  IF m.k = "num" /\ f.k = "num" THEN Num(f.n - m.n) ELSE NaN

SubCell(m, f) ==
  IF m.k = "num" /\ f.k = "num" THEN Num(m.n - f.n) ELSE NaN

\* df[male] - df[female]
Subtract(m, f) == [r \in DOMAIN m |-> SubCell(m[r], f[r])]

\* A scalar np.nan assigned to a column.
AllMissing(d) == [r \in 1..d.n |-> NaN]

\* The else branch adds the missing column only when the label is new.
GapColumnKeepExisting(d, gap, female, male) ==
  IF HasColumn(d, female) /\ HasColumn(d, male)
  THEN SetItem(d, gap, Subtract(GetItem(d, male), GetItem(d, female)))
  ELSE IF HasColumn(d, gap) THEN d ELSE SetItem(d, gap, AllMissing(d))

\* The derived column concatenated to the table instead of assigned.
GapColumnConcat(d, gap, female, male) ==
  LET series == IF HasColumn(d, female) /\ HasColumn(d, male)
                THEN Subtract(GetItem(d, male), GetItem(d, female))
                ELSE AllMissing(d)
  IN  [d EXCEPT !.columns = Append(d.columns, Label(gap)),
                !.data = Append(d.data, series)]

\* if female in df.columns and male in df.columns: df[gap] = df[male] - df[female]
\* else: df[gap] = np.nan
GapColumn(d, gap, female, male) ==
  IF HasColumn(d, female) /\ HasColumn(d, male)
  THEN SetItem(d, gap, Subtract(GetItem(d, male), GetItem(d, female)))
  ELSE SetItem(d, gap, AllMissing(d))

CLEAN_STEPS == <<"replace", "columns", "to_numeric", "Edu_gap", "Labour_gap">>

\* Lines 43-63 applied to a table: the result, or the exception raised.
CleanTable(d) ==
  LET c == ConvertNumerics(NormalizeColumns(ReplacePlaceholder(d)), 1) IN
  IF c.raised
  THEN [raised |-> TRUE, df |-> None, steps |-> SubSeq(CLEAN_STEPS, 1, 3)]
  ELSE [raised |-> FALSE,
        df |-> Some(GapColumn(GapColumn(c.df, "Edu_gap", "F_secondary_educ", "M_secondary_educ"),
                              "Labour_gap", "F_Labour_force", "M_Labour_force")),
        steps |-> CLEAN_STEPS]

Message(prefix, arg) == [prefix |-> prefix, arg |-> arg]

\* An exception nothing catches, and the line that raises it.
Raised(type, line) == [type |-> type, line |-> line]

\* load_data without the existence check of line 35.
load_data_unchecked(path) ==
  LET r == read_csv(path) IN
  IF r.raised
  THEN [exc |-> None, df |-> None,
        err |-> Some(Message("Error reading CSV: ", r.msg)),
        steps |-> <<"read_csv">>]
  ELSE LET c == CleanTable(r.df[1]) IN
       [exc |-> IF c.raised THEN Some(Raised("TypeError", 52)) ELSE None,
        df |-> c.df, err |-> None, steps |-> <<"read_csv">> \o c.steps]

\* The outcome of load_data(path): the returned pair, or the exception that
\* escapes it, with the steps it went through.
load_data(path) ==
  IF ~os_path_exists(path)
  THEN [exc |-> None, df |-> None,
        err |-> Some(Message("File not found at: ", path)),
        steps |-> <<"exists">>]
  ELSE LET r == read_csv(path) IN
       IF r.raised
       THEN [exc |-> None, df |-> None,
             err |-> Some(Message("Error reading CSV: ", r.msg)),
             steps |-> <<"exists", "read_csv">>]
       ELSE LET c == CleanTable(r.df[1]) IN
            IF c.raised
            THEN [exc |-> Some(Raised("TypeError", 52)), df |-> None, err |-> None,
                  steps |-> <<"exists", "read_csv">> \o c.steps]
            ELSE [exc |-> None, df |-> c.df, err |-> None,
                  steps |-> <<"exists", "read_csv">> \o c.steps]

-----------------------------------------------------------------------------
(* The session *)

Files ==
  { [exists |-> FALSE, malformed |-> FALSE, header |-> <<>>, rows |-> <<>>],
    [exists |-> TRUE, malformed |-> TRUE, header |-> <<>>, rows |-> <<>>] }
  \cup
  { [exists |-> TRUE, malformed |-> FALSE, header |-> h, rows |-> rs] :
      <<h, rs>> \in UNION { {h} \X UNION { [1..n -> [DOMAIN h -> Tokens]] : n \in 0..MaxRows }
                             : h \in Schemas } }

Init ==
  /\ file \in Files
  /\ pc = "start"
  /\ df = None
  /\ load_error = None
  /\ steps = <<>>
  /\ exc = None
  /\ shown = <<>>
  /\ kpi = None

\* df, load_error = load_data(DATA_PATH)
LoadData ==
  /\ pc = "start"
  /\ LET r == load_data(DATA_PATH) IN
       /\ steps' = r.steps
       /\ exc' = r.exc
       /\ df' = r.df
       /\ load_error' = r.err
       /\ pc' = IF r.exc # None THEN "crashed" ELSE "loaded"
  /\ UNCHANGED <<file, shown, kpi>>

Widget(w, m) == [widget |-> w, prefix |-> m.prefix, arg |-> m.arg]

\* The guard without its second test (df is None or df.empty).
GuardNoEmptyCheck ==
  /\ pc = "loaded"
  /\ IF load_error # None
     THEN /\ shown' = Append(shown, Widget("error", load_error[1]))
          /\ pc' = "stopped"
     ELSE /\ shown' = Append(shown, Widget("title",
                         Message("Global Gender Inequality Dashboard", "")))
          /\ pc' = "kpi"
  /\ UNCHANGED <<file, df, load_error, steps, exc, kpi>>

\* if load_error: st.error(load_error); st.stop()
\* if df is None or df.empty: st.error(...); st.stop()
\* then the title and the introduction.
Guard ==
  /\ pc = "loaded"
  /\ IF load_error # None
     THEN /\ shown' = Append(shown, Widget("error", load_error[1]))
          /\ pc' = "stopped"
     ELSE IF df = None \/ Empty(df[1])
     THEN /\ shown' = Append(shown, Widget("error",
                         Message("Dataset is empty or could not be loaded.", "")))
          /\ pc' = "stopped"
     ELSE /\ shown' = Append(shown, Widget("title",
                         Message("Global Gender Inequality Dashboard", "")))
          /\ pc' = "kpi"
  /\ UNCHANGED <<file, df, load_error, steps, exc, kpi>>

\* The positions of the rows whose cells under every label of subset are
\* present.
CompleteRows(d, subset) ==
  SelectSeq([r \in 1..d.n |-> r],
            LAMBDA r : \A name \in Range(subset) :
                         \A i \in Positions(d, name) : ~isna(d.data[i][r]))

\* df.dropna(subset=...): KeyError when a label of subset is no column.
dropna(d, subset) ==
  IF \E name \in Range(subset) : ~HasColumn(d, name)
  THEN [raised |-> TRUE, df |-> d]
  ELSE LET keep == CompleteRows(d, subset) IN
       [raised |-> FALSE,
        df |-> [d EXCEPT !.n = Len(keep),
                         !.data = [i \in DOMAIN d.data |->
                                     [k \in DOMAIN keep |-> d.data[i][keep[k]]]]]]

\* df_gii = df.dropna(subset=[TARGET_COL]), once line 113 has passed.
df_gii == dropna(df[1], <<TARGET_COL>>).df

RECURSIVE SumCells(_)
SumCells(series) ==
  IF series = <<>> THEN 0 ELSE Head(series).n + SumCells(Tail(series))

\* Series.min(): NaN for an empty series.
Lowest(series) ==
  IF series = <<>> THEN NaN
  ELSE CHOOSE c \in Range(series) : \A o \in Range(series) : c.n <= o.n

\* Series.max(): NaN for an empty series.
Highest(series) ==
  IF series = <<>> THEN NaN
  ELSE CHOOSE c \in Range(series) : \A o \in Range(series) : c.n >= o.n

\* Series.nunique(): the distinct values present.
nunique(series) == Cardinality({c \in Range(series) : ~isna(c)})

\* The KPI section: line 113 raises KeyError without a TARGET_COL column;
\* int(...) of the nunique() of a repeated "Country" label raises TypeError.
KPI ==
  /\ pc = "kpi"
  /\ LET g == dropna(df[1], <<TARGET_COL>>) IN
     IF g.raised
     THEN /\ exc' = Some(Raised("KeyError", 113))
          /\ pc' = "crashed"
          /\ shown' = Append(shown, Widget("header", Message("Key Performance Indicators", "")))
          /\ UNCHANGED kpi
     ELSE IF Cardinality(Positions(g.df, "Country")) > 1
     THEN /\ exc' = Some(Raised("TypeError", 118))
          /\ pc' = "crashed"
          /\ shown' = Append(shown, Widget("header", Message("Key Performance Indicators", "")))
          /\ UNCHANGED kpi
     ELSE LET gii == GetItem(g.df, TARGET_COL) IN
          /\ kpi' = Some([n_countries |-> IF HasColumn(g.df, "Country")
                                          THEN nunique(GetItem(g.df, "Country"))
                                          ELSE g.df.n,
                          total   |-> SumCells(gii),
                          count   |-> Len(gii),
                          lowest  |-> Lowest(gii),
                          highest |-> Highest(gii)])
          /\ shown' = Append(shown, Widget("header", Message("Key Performance Indicators", "")))
          /\ pc' = "tab_dist"
          /\ UNCHANGED exc
  /\ UNCHANGED <<file, df, load_error, steps>>

SUMMARY_COLS == NUMERIC_COLS \o <<"Edu_gap", "Labour_gap">>

\* safe_numeric_summary(df, cols): the labels of cols that are columns (the
\* rows of describe().T); empty when there is none.
safe_numeric_summary(d, cols) == SelectSeq(cols, LAMBDA c : HasColumn(d, c))

\* The Distribution tab.
TabDist ==
  /\ pc = "tab_dist"
  /\ IF HasColumn(df_gii, TARGET_COL)
     THEN LET desc == safe_numeric_summary(df[1], SUMMARY_COLS) IN
          shown' = shown \o
            << Widget("plotly_chart", Message("GII distribution", "")),
               IF desc # <<>>
               THEN Widget("dataframe", Message("describe", ""))
               ELSE Widget("info", Message("No numeric columns available for summary.", "")) >>
     ELSE shown' = Append(shown, Widget("warning",
                     Message("GII VALUE column is missing; cannot show distribution.", "")))
  /\ pc' = "tab_hd"
  /\ UNCHANGED <<file, df, load_error, steps, exc, kpi>>

\* The "By development group" tab.
TabHd ==
  /\ pc = "tab_hd"
  /\ IF HasColumn(df[1], "HUMAN DEVELOPMENT") /\ HasColumn(df[1], TARGET_COL)
     THEN LET df_box == dropna(df[1], <<"HUMAN DEVELOPMENT", TARGET_COL>>).df IN
          IF Empty(df_box)
          THEN shown' = Append(shown, Widget("info",
                          Message("No complete data for HUMAN DEVELOPMENT and GII VALUE.", "")))
          ELSE shown' = Append(shown, Widget("plotly_chart",
                          Message("GII distribution by human development", "")))
     ELSE shown' = Append(shown, Widget("info",
                     Message("HUMAN DEVELOPMENT or GII VALUE column not found in the dataset.", "")))
  /\ pc' = "tab_rel"
  /\ UNCHANGED <<file, df, load_error, steps, exc, kpi>>

DRIVER_COLS == SubSeq(NUMERIC_COLS, 4, 10) \o <<"Edu_gap", "Labour_gap">>

\* The Relationships tab; the two select boxes are the user's choice.
TabRel ==
  /\ pc = "tab_rel"
  /\ LET numeric_options == SelectSeq(DRIVER_COLS, LAMBDA c : HasColumn(df[1], c))
         colours == IF HasColumn(df[1], "HUMAN DEVELOPMENT")
                    THEN {"None", "HUMAN DEVELOPMENT", "Country"}
                    ELSE {"None", "Country"}
     IN
     IF numeric_options = <<>>
     THEN shown' = Append(shown, Widget("info",
                     Message("No numeric driver columns available for relationship plots.", "")))
     ELSE \E x_var \in Range(numeric_options), color_by \in colours :
            LET subset_cols == <<TARGET_COL, x_var>> \o
                                 (IF color_by # "None" /\ HasColumn(df[1], color_by)
                                  THEN <<color_by>> ELSE <<>>)
                df_scatter == dropna(df[1], subset_cols).df
            IN
            IF Empty(df_scatter)
            THEN shown' = Append(shown, Widget("info",
                            Message("No complete rows available for the selected variables.", "")))
            ELSE shown' = Append(shown, Widget("plotly_chart", Message("GII vs ", x_var)))
  /\ pc' = "tab_map"
  /\ UNCHANGED <<file, df, load_error, steps, exc, kpi>>

\* The "Global map" tab; px.choropleth may fail on the location names.
TabMap ==
  /\ pc = "tab_map"
  /\ IF HasColumn(df[1], "Country") /\ HasColumn(df[1], TARGET_COL)
     THEN LET df_map == dropna(df[1], <<"Country", TARGET_COL>>).df IN
          IF Empty(df_map)
          THEN shown' = Append(shown, Widget("info",
                          Message("No complete Country + GII VALUE rows available for mapping.", "")))
          ELSE \E rendered \in BOOLEAN :
                 shown' = Append(shown,
                   IF rendered
                   THEN Widget("plotly_chart", Message("Global map of Gender Inequality Index", ""))
                   ELSE Widget("warning",
                          Message("Could not render map because of location name issues: ", "")))
     ELSE shown' = Append(shown, Widget("info",
                     Message("Country or GII VALUE column missing; cannot render map.", "")))
  /\ pc' = "tab_summary"
  /\ UNCHANGED <<file, df, load_error, steps, exc, kpi>>

\* The "Findings & context" tab: static text.
TabSummary ==
  /\ pc = "tab_summary"
  /\ shown' = Append(shown, Widget("markdown", Message("Problem statement", "")))
  /\ pc' = "done"
  /\ UNCHANGED <<file, df, load_error, steps, exc, kpi>>

Next == LoadData \/ Guard \/ KPI \/ TabDist \/ TabHd \/ TabRel \/ TabMap \/ TabSummary

Spec == Init /\ [][Next]_vars

-----------------------------------------------------------------------------
(* Properties *)

\* load_data has been called.
Called == pc # "start"

\* The call ended in an exception that escaped load_data.
LoadRaised == exc # None /\ exc[1].line = 52

\* The call returned a table.
LoadedTable == Called /\ df # None

\* The file held a table that read_csv parsed.
Parsable == file.exists /\ ~file.malformed

\* What read_csv made of the file.
Parsed == ParseCsv(file)

\* The labels of the parsed table after header normalization.
Schema == NormalizeColumns(Parsed)

NumericLabels == {Label(c) : c \in Range(NUMERIC_COLS)}

\* C1: every call of load_data yields exactly one of a table and an error
\* message: it never yields both, and never yields neither (no (None, None)
\* and no outcome that is neither of the two).
C1_ExactlyOne ==
  Called => (~LoadRaised /\ ((df = None) # (load_error = None)))

\* C2: when the path does not exist, load_data returns the "File not found"
\* message carrying the path and no table, and performs none of the parse,
\* replacement, header, coercion and derived-column steps.
C2_NotFound ==
  (Called /\ ~file.exists) =>
     /\ ~LoadRaised
     /\ df = None
     /\ load_error = Some(Message("File not found at: ", DATA_PATH))
     /\ steps = <<"exists">>

C2_Witness == pc = "loaded" /\ ~file.exists /\ load_error # None

\* C3: when load_data returns an error, or a table that is missing or empty,
\* the script shows the error and stops: nothing but that one error is ever
\* shown and no KPI is computed.
C3_ErrorHalts ==
  (Called /\ ~LoadRaised /\ (load_error # None \/ df = None \/ Empty(df[1]))) =>
     /\ pc \in {"loaded", "stopped"}
     /\ kpi = None
     /\ exc = None
     /\ pc = "loaded" => shown = <<>>
     /\ pc = "stopped" =>
          shown = << Widget("error",
                       IF load_error # None THEN load_error[1]
                       ELSE Message("Dataset is empty or could not be loaded.", "")) >>

C3_Witness ==
  pc = "stopped" /\ load_error = None /\ df # None /\ Empty(df[1]) /\ Len(shown) = 1

\* A derived label whose two source columns are both in the schema: the
\* column under it is overwritten with the computed gap.
Recomputed(label) ==
  \/ /\ label = Label("Edu_gap")
     /\ HasColumn(Schema, "F_secondary_educ") /\ HasColumn(Schema, "M_secondary_educ")
  \/ /\ label = Label("Labour_gap")
     /\ HasColumn(Schema, "F_Labour_force") /\ HasColumn(Schema, "M_Labour_force")

NoPlaceholderLeft ==
  \A i \in DOMAIN df[1].data : \A r \in DOMAIN df[1].data[i] :
     df[1].data[i][r] # Str(PLACEHOLDER)

\* C4 as stated: in a loaded table every cell parsed as ".." is missing,
\* whatever its column, and no cell equals "..".
C4_Original ==
  LoadedTable =>
     /\ \A i \in DOMAIN Parsed.data : \A r \in DOMAIN Parsed.data[i] :
          Parsed.data[i][r] = Str(PLACEHOLDER) => isna(df[1].data[i][r])
     /\ NoPlaceholderLeft

\* C4 amended: in a loaded table every cell parsed as ".." is missing, in
\* every column but a derived-name column (Edu_gap, Labour_gap) whose two
\* source columns are both present, which holds the computed gap; and no cell
\* equals "..".
C4_PlaceholderMissing ==
  LoadedTable =>
     /\ \A i \in DOMAIN Parsed.data : \A r \in DOMAIN Parsed.data[i] :
          (Parsed.data[i][r] = Str(PLACEHOLDER) /\ ~Recomputed(Schema.columns[i]))
             => isna(df[1].data[i][r])
     /\ NoPlaceholderLeft

C4_Witness ==
  /\ LoadedTable
  /\ \E i \in DOMAIN Parsed.data : \E r \in DOMAIN Parsed.data[i] :
       /\ Parsed.data[i][r] = Str(PLACEHOLDER)
       /\ Schema.columns[i] \notin NumericLabels
       /\ ~Recomputed(Schema.columns[i])
       /\ isna(df[1].data[i][r])

\* C5: in a loaded table every cell of a column whose normalized label is in
\* NUMERIC_COLS is a number or missing, never text.
C5_NumericOrMissing ==
  LoadedTable =>
     \A i \in DOMAIN Parsed.columns :
        NormalizeHeader(Parsed.columns[i]) \in NumericLabels =>
           \A r \in DOMAIN df[1].data[i] : df[1].data[i][r].k \in {"num", "nan"}

C5_Witness ==
  /\ LoadedTable
  /\ \E i \in DOMAIN Parsed.columns : \E r \in DOMAIN Parsed.data[i] :
       /\ Parsed.columns[i] # NormalizeHeader(Parsed.columns[i])
       /\ NormalizeHeader(Parsed.columns[i]) \in NumericLabels
       /\ Parsed.data[i][r] = Str("abc")
       /\ isna(df[1].data[i][r])

\* C6: when F_secondary_educ and M_secondary_educ are both columns of the
\* loaded table, Edu_gap is M_secondary_educ - F_secondary_educ in every row
\* where both are present and missing in every row where one is missing.
C6_EduGap ==
  (LoadedTable /\ HasColumn(df[1], "F_secondary_educ")
               /\ HasColumn(df[1], "M_secondary_educ")) =>
     /\ HasColumn(df[1], "Edu_gap")
     /\ \A g \in Positions(df[1], "Edu_gap") : \A r \in 1..df[1].n :
          LET m == GetItem(df[1], "M_secondary_educ")[r]
              f == GetItem(df[1], "F_secondary_educ")[r]
              e == df[1].data[g][r]
          IN  IF isna(m) \/ isna(f)
              THEN isna(e)
              ELSE e.k = "num" /\ m.k = "num" /\ f.k = "num" /\ e.n = m.n - f.n

C6_Witness ==
  /\ LoadedTable
  /\ HasColumn(df[1], "F_secondary_educ") /\ HasColumn(df[1], "M_secondary_educ")
  /\ df[1].n > 0
  /\ GetItem(df[1], "F_secondary_educ")[1] = Num(40)
  /\ GetItem(df[1], "M_secondary_educ")[1] = Num(55)
  /\ GetItem(df[1], "Edu_gap")[1] = Num(15)

GapSources ==
  { <<"Edu_gap", "F_secondary_educ", "M_secondary_educ">>,
    <<"Labour_gap", "F_Labour_force", "M_Labour_force">> }

\* C7: for each derived gap column, when one of its two source columns is not
\* in the (normalized) input schema, the loaded table has the derived column
\* and it is missing in every row, also when the file had a column of that
\* name holding values.
C7_AbsentSources ==
  LoadedTable =>
     \A t \in GapSources :
        (~HasColumn(Schema, t[2]) \/ ~HasColumn(Schema, t[3])) =>
           /\ HasColumn(df[1], t[1])
           /\ \A g \in Positions(df[1], t[1]) :
                /\ Len(df[1].data[g]) = df[1].n
                /\ \A r \in 1..df[1].n : isna(df[1].data[g][r])

C7_Witness ==
  /\ LoadedTable
  /\ \E t \in GapSources :
       /\ HasColumn(Schema, t[1])
       /\ ~HasColumn(Schema, t[2])
       /\ Schema.n > 0
       /\ GetItem(Schema, t[1])[1] = Num(40)
       /\ isna(GetItem(df[1], t[1])[1])

\* C8: cleaning a table the loader produced gives that table again: the same
\* labels in the same order, the same cells.
C8_Idempotent ==
  LoadedTable =>
     LET again == CleanTable(df[1]) IN ~again.raised /\ again.df = df

C8_Witness ==
  /\ LoadedTable
  /\ \E i \in DOMAIN Parsed.columns : Parsed.columns[i] # df[1].columns[i]
  /\ \E i \in DOMAIN Parsed.data : \E r \in DOMAIN Parsed.data[i] :
       Parsed.data[i][r] = Str(PLACEHOLDER)
  /\ Len(df[1].columns) > Len(Parsed.columns)
  /\ CleanTable(df[1]).df = df

\* C9: once the file has parsed, the cleaning steps never fail: load_data
\* returns (table, None), whatever the header row.
C9_CleaningNeverFails ==
  (Called /\ Parsable) => (~LoadRaised /\ df # None /\ load_error = None)

\* C10: with a non-empty loaded table that has no GII VALUE column the script
\* fails nowhere, and past the Distribution tab its warning has been shown.
C10_MissingTargetHandled ==
  (LoadedTable /\ ~Empty(df[1]) /\ ~HasColumn(df[1], TARGET_COL)) =>
     /\ exc = None
     /\ pc \in {"tab_hd", "tab_rel", "tab_map", "tab_summary", "done"} =>
          Widget("warning",
                 Message("GII VALUE column is missing; cannot show distribution.", ""))
            \in Range(shown)

====
